---- MODULE Spec2Model ----
(***************************************************************************)
(* pessimist: Manager.solve (src/pessimist/manager.py).                    *)
(*                                                                         *)
(* The model covers the plan generators (get_max_plan, get_min_plan,       *)
(* get_intermediate_plans), the worker threads (runner) and the main       *)
(* thread of solve, which dispatches plans, aggregates results, runs the   *)
(* final joint test and shuts the workers down.  Installing and testing a  *)
(* plan is an external subprocess: its outcome is a nondeterministic       *)
(* choice made when the worker finishes the plan.                          *)
(***************************************************************************)
EXTENDS Integers, Sequences, FiniteSets, TLC

\* ---------------------------------------------------------------- bounds
\* longest candidate list of a name
MaxCand == 3
\* largest value of the parallelism argument
MaxPar == 2

\* ------------------------------------------------------------ Optional[T]
None == <<>>
Some(x) == <<x>>

\* ---------------------------------------------------------------- catalog
\* self.versions is a dict; its iteration order is its insertion order.
NameOrder == <<"a", "b">>
Names == {NameOrder[i] : i \in 1..Len(NameOrder)}

\* An ascending candidate list of the given length; the lists of different
\* names do not share version numbers.
Candidates(n, len) ==
    [i \in 1..len |-> IF n = NameOrder[1] THEN i ELSE i + MaxCand]

\* The catalogs explored: the first name has up to MaxCand candidates, the
\* second is pinned (one candidate) or has two.
Lengths ==
    { len \in [Names -> 1..MaxCand] : len[NameOrder[2]] <= 2 }

\* Manager.__init__, fast: keep only the two extremes of a list.
TrimFast(fast, vs) ==
    IF fast
    THEN IF Len(vs) = 1 THEN <<vs[1]>> ELSE <<vs[1], vs[Len(vs)]>>
    ELSE vs

Catalogs(fast) ==
    { [n \in Names |-> TrimFast(fast, Candidates(n, len[n]))] :
          len \in Lengths }

\* ------------------------------------------------------------------ plans
Plan(title, vers, fatal, name, version) ==
    [title |-> title, versions |-> vers, fatal |-> fatal,
     name |-> name, version |-> version]

\* get_max_plan with a fault: v[0] instead of v[-1]
get_max_plan_first(versions) ==
    Plan("max", [k \in DOMAIN versions |-> versions[k][1]], TRUE, None, None)

get_max_plan(versions) ==
    Plan("max", [k \in DOMAIN versions |-> versions[k][Len(versions[k])]],
         TRUE, None, None)

\* get_min_plan with a fault: fatal=False
get_min_plan_nonfatal(versions) ==
    Plan("min", [k \in DOMAIN versions |-> versions[k][1]], FALSE, None, None)

get_min_plan(versions) ==
    Plan("min", [k \in DOMAIN versions |-> versions[k][1]], TRUE, None, None)

ProbeTitle(k, v) == k \o ":" \o ToString(v)

\* PlansOfName with a fault: `for v in versions` instead of versions[:-1]
PlansOfNameAll(versions, k) ==
    LET max_vers == get_max_plan(versions).versions
        vs == versions[k]
    IN  [i \in 1..Len(vs) |->
            Plan(ProbeTitle(k, vs[i]), [max_vers EXCEPT ![k] = vs[i]],
                 FALSE, Some(k), Some(vs[i]))]

\* the plans of one name: one per candidate below the last
PlansOfName(versions, k) ==
    LET max_vers == get_max_plan(versions).versions
        vs == versions[k]
    IN  [i \in 1..(Len(vs) - 1) |->
            Plan(ProbeTitle(k, vs[i]), [max_vers EXCEPT ![k] = vs[i]],
                 FALSE, Some(k), Some(vs[i]))]

RECURSIVE PlansFrom(_, _)
PlansFrom(versions, i) ==
    IF i > Len(NameOrder) THEN <<>>
    ELSE PlansOfName(versions, NameOrder[i]) \o PlansFrom(versions, i + 1)

get_intermediate_plans(versions) == PlansFrom(versions, 1)

\* ---------------------------------------------------------------- results
Result(item, exception, output) ==
    [item |-> item, exception |-> exception, output |-> output]

\* What running a plan can produce.  `raise Exception("Install failed")`
\* (line 235) comes before the test command is run, `raise Exception("Test
\* failed")` (line 249) after it; both end in the same except clause.
InstallOutput == "$ pip install"
TestOutput == "$ pip install$ command"
Failures ==
    { <<Some("Install failed"), InstallOutput>>,
      <<Some("Test failed"), TestOutput>> }
Success == <<None, TestOutput>>

\* ------------------------------------------------------------------ state
VARIABLES
    fast,           \* self.fast
    versions,       \* self.versions
    parallelism,    \* the argument of solve, clamped in fast mode
    queue,          \* Queue[Optional[Plan]]
    results,        \* Queue[Result]
    should_cancel,
    wpc,            \* per worker thread: "get", "check", "run", "exited"
    item,           \* per worker thread: the item it dequeued
    aggPc,          \* position of the main thread in solve
    todo,           \* plans the main thread still has to put
    outstanding,
    min_versions,   \* the dict min_versions as a mapping ...
    min_keys,       \* ... and its keys in insertion order
    rv,
    result,         \* the last Result the main thread took
    sent,           \* sentinels put so far
    out,            \* lines printed to standard output
    warnings,       \* lines logged with LOG.warning
    taken,          \* history: title -> how often a worker dequeued it
    ran             \* history: title -> the exceptions of its executions

vars == <<fast, versions, parallelism, queue, results,
          should_cancel, wpc, item, aggPc, todo, outstanding, min_versions,
          min_keys, rv, result, sent, out, warnings, taken, ran>>

aggVars == <<aggPc, todo, outstanding, min_versions, min_keys, rv, result,
             sent, out, warnings>>
workerVars == <<wpc, item, taken, ran>>
confVars == <<fast, versions, parallelism>>

threads == DOMAIN wpc

\* ------------------------------------------------------------------- Init
Init ==
    /\ fast \in BOOLEAN
    /\ versions \in Catalogs(fast)
    /\ parallelism \in 1..MaxPar
    /\ queue = <<>>
    /\ results = <<>>
    /\ should_cancel = FALSE
    /\ wpc = <<>>
    /\ item = <<>>
    /\ aggPc = "start"
    /\ todo = <<>>
    /\ outstanding = 0
    /\ min_versions = <<>>
    /\ min_keys = <<>>
    /\ rv = 0
    /\ result = None
    /\ sent = 0
    /\ out = <<>>
    /\ warnings = <<>>
    /\ taken = <<>>
    /\ ran = <<>>

\* ---------------------------------------------------------------- history
Counted(f, t) ==
    IF t \in DOMAIN f THEN [f EXCEPT ![t] = @ + 1] ELSE (t :> 1) @@ f

Recorded(f, t, e) ==
    IF t \in DOMAIN f THEN [f EXCEPT ![t] = Append(@, e)] ELSE (t :> <<e>>) @@ f

\* ---------------------------------------------------------------- workers
\* runner: item = queue.get(block=True); if item is None: break
\* Which of the threads blocked in queue.get receives the item is arbitrary
\* and the threads are interchangeable: the lowest-numbered one is taken.
Dequeue(w) ==
    /\ wpc[w] = "get"
    /\ \A u \in threads : wpc[u] = "get" => w <= u
    /\ queue # <<>>
    /\ queue' = Tail(queue)
    /\ item' = [item EXCEPT ![w] = Head(queue)]
    /\ wpc' = [wpc EXCEPT ![w] = IF Head(queue) = None THEN "exited" ELSE "check"]
    /\ taken' = IF Head(queue) = None THEN taken
                ELSE Counted(taken, Head(queue)[1].title)
    /\ UNCHANGED <<results, should_cancel, ran>>
    /\ UNCHANGED aggVars
    /\ UNCHANGED confVars

\* CheckCancel with a fault: `if not should_cancel: break`
CheckCancelNegated(w) ==
    /\ wpc[w] = "check"
    /\ wpc' = [wpc EXCEPT ![w] = IF ~should_cancel THEN "exited" ELSE "run"]
    /\ UNCHANGED <<queue, results, should_cancel, item, taken, ran>>
    /\ UNCHANGED aggVars
    /\ UNCHANGED confVars

\* runner: if should_cancel: break
CheckCancel(w) ==
    /\ wpc[w] = "check"
    /\ wpc' = [wpc EXCEPT ![w] = IF should_cancel THEN "exited" ELSE "run"]
    /\ UNCHANGED <<queue, results, should_cancel, item, taken, ran>>
    /\ UNCHANGED aggVars
    /\ UNCHANGED confVars

\* Execute with a fault: a failure is put on the result queue twice
ExecuteTwice(w) ==
    /\ wpc[w] = "run"
    /\ \E o \in {Success} \cup Failures :
          /\ results' = IF o[1] = None
                        THEN Append(results, Result(item[w][1], o[1], o[2]))
                        ELSE results \o <<Result(item[w][1], o[1], o[2]),
                                          Result(item[w][1], o[1], o[2])>>
          /\ ran' = IF o[1] = None
                    THEN Recorded(ran, item[w][1].title, o[1])
                    ELSE Recorded(Recorded(ran, item[w][1].title, o[1]),
                                  item[w][1].title, o[1])
    /\ wpc' = [wpc EXCEPT ![w] = "get"]
    /\ UNCHANGED <<queue, should_cancel, item, taken>>
    /\ UNCHANGED aggVars
    /\ UNCHANGED confVars

\* runner: install, test, results.put(Result(...)), back to queue.get
Execute(w) ==
    /\ wpc[w] = "run"
    /\ \E o \in {Success} \cup Failures :
          /\ results' = Append(results, Result(item[w][1], o[1], o[2]))
          /\ ran' = Recorded(ran, item[w][1].title, o[1])
    /\ wpc' = [wpc EXCEPT ![w] = "get"]
    /\ UNCHANGED <<queue, should_cancel, item, taken>>
    /\ UNCHANGED aggVars
    /\ UNCHANGED confVars

\* ------------------------------------------------------------ main thread
\* solve, lines 258-259: if self.fast: parallelism = min(parallelism, 2)
PoolSize(f, p) == IF f /\ p > 2 THEN 2 ELSE p

\* Plans with a fault: the max plan is put last
PlansMaxLast(f, vs) ==
    (IF f THEN <<get_min_plan(vs)>> ELSE get_intermediate_plans(vs)) \o
    <<get_max_plan(vs)>>

\* solve, lines 269-277: the plans in the order they are put on the queue
Plans(f, vs) ==
    <<get_max_plan(vs)>> \o
    (IF f THEN <<get_min_plan(vs)>> ELSE get_intermediate_plans(vs))

\* solve: clamp parallelism, start the threads, make the list of plans
StartThreads ==
    /\ aggPc = "start"
    /\ LET p == PoolSize(fast, parallelism) IN
          /\ parallelism' = p
          /\ wpc' = [w \in 1..p |-> "get"]
          /\ item' = [w \in 1..p |-> None]
    /\ todo' = Plans(fast, versions)
    /\ aggPc' = "put"
    /\ UNCHANGED <<fast, versions, queue, results, should_cancel,
                   outstanding, min_versions, min_keys, rv, result, sent, out,
                   warnings, taken, ran>>

\* solve: queue.put(plan); outstanding += 1
Dispatch ==
    /\ aggPc = "put"
    /\ queue' = Append(queue, Some(Head(todo)))
    /\ outstanding' = outstanding + 1
    /\ todo' = Tail(todo)
    /\ aggPc' = IF Tail(todo) = <<>> THEN "loop" ELSE "put"
    /\ UNCHANGED <<results, should_cancel, min_versions, min_keys, rv, result,
                   sent, out, warnings>>
    /\ UNCHANGED workerVars
    /\ UNCHANGED confVars

FailLine(r) == "FAIL " \o r.item.title \o ": " \o r.exception[1]
OkLine(r) == "OK   " \o r.item.title

\* Inconsistent with a fault: the comparison is turned round
InconsistentBelow(r, mv) ==
    /\ r.item.name # None
    /\ r.item.version # None
    /\ r.item.name[1] \in DOMAIN mv
    /\ mv[r.item.name[1]] > r.item.version[1]

\* the test of lines 290-295
Inconsistent(r, mv) ==
    /\ r.item.name # None
    /\ r.item.version # None
    /\ r.item.name[1] \in DOMAIN mv
    /\ mv[r.item.name[1]] < r.item.version[1]

Min(x, y) == IF x < y THEN x ELSE y

\* Lowered with a fault: the latest passing version replaces the recorded one
LoweredLast(r, mv) ==
    IF r.item.name # None
    THEN LET k == r.item.name[1]
             v == r.item.version[1]
         IN  IF k \in DOMAIN mv
             THEN [mv EXCEPT ![k] = v]
             ELSE (k :> v) @@ mv
    ELSE mv

\* Lowered with a fault: max() instead of min() on line 305
LoweredMax(r, mv) ==
    IF r.item.name # None
    THEN LET k == r.item.name[1]
             v == r.item.version[1]
         IN  IF k \in DOMAIN mv
             THEN [mv EXCEPT ![k] = IF mv[k] < v THEN v ELSE mv[k]]
             ELSE (k :> v) @@ mv
    ELSE mv

\* lines 304-311
Lowered(r, mv) ==
    IF r.item.name # None
    THEN LET k == r.item.name[1]
             v == r.item.version[1]
         IN  IF k \in DOMAIN mv
             THEN [mv EXCEPT ![k] = Min(mv[k], v)]
             ELSE (k :> v) @@ mv
    ELSE mv

\* line 311 adds a key to the dict, line 307 keeps the keys as they are
Inserted(r, mv, keys) ==
    IF r.item.name # None /\ r.item.name[1] \notin DOMAIN mv
    THEN Append(keys, r.item.name[1])
    ELSE keys

\* solve: one turn of `while outstanding and not should_cancel`
Consume ==
    /\ aggPc = "loop"
    /\ outstanding > 0 /\ ~should_cancel
    /\ results # <<>>
    /\ LET r == Head(results) IN
          /\ results' = Tail(results)
          /\ result' = Some(r)
          /\ outstanding' = outstanding - 1
          /\ IF r.exception # None
             THEN /\ out' = out \o <<FailLine(r), "  " \o r.output>>
                  /\ warnings' = IF Inconsistent(r, min_versions)
                                 THEN Append(warnings, "  Inconsistent result")
                                 ELSE warnings
                  /\ should_cancel' = IF r.item.fatal THEN TRUE ELSE should_cancel
                  /\ rv' = IF r.item.fatal THEN 1 ELSE rv
                  /\ UNCHANGED <<min_versions, min_keys>>
             ELSE /\ out' = Append(out, OkLine(r))
                  /\ min_versions' = Lowered(r, min_versions)
                  /\ min_keys' = Inserted(r, min_versions, min_keys)
                  /\ UNCHANGED <<warnings, should_cancel, rv>>
    /\ UNCHANGED <<queue, aggPc, todo, sent>>
    /\ UNCHANGED workerVars
    /\ UNCHANGED confVars

\* JointPlan with a fault: tmp.update(min_versions) is left out
JointPlanNoUpdate(vs, mv) ==
    Plan("min", get_max_plan(vs).versions, TRUE, None, None)

\* tmp = self.get_max_plan().versions.copy(); tmp.update(min_versions)
JointPlan(vs, mv) ==
    LET max_vers == get_max_plan(vs).versions
        tmp == [k \in DOMAIN max_vers |->
                   IF k \in DOMAIN mv THEN mv[k] ELSE max_vers[k]]
    IN  Plan("min", tmp, TRUE, None, None)

\* print(min_versions), line 316
RECURSIVE DictItems(_, _, _)
DictItems(mv, keys, i) ==
    IF i > Len(keys) THEN ""
    ELSE (IF i > 1 THEN ", " ELSE "") \o
         "'" \o keys[i] \o "': " \o ToString(mv[keys[i]]) \o
         DictItems(mv, keys, i + 1)

DictRepr(mv, keys) == "{" \o DictItems(mv, keys, 1) \o "}"

\* the condition of line 313
\* WantsFinal with a fault: the test of min_versions is left out
WantsFinalAlways == ~fast

WantsFinal == ~fast /\ min_versions # <<>>

\* solve: the loop ends; either the final test is put on the queue or the
\* shutdown begins
LeaveLoop ==
    /\ aggPc = "loop"
    /\ ~(outstanding > 0 /\ ~should_cancel)
    /\ IF WantsFinal
       THEN /\ out' = out \o <<"Final test", "==========",
                                DictRepr(min_versions, min_keys)>>
            /\ queue' = Append(queue, Some(JointPlan(versions, min_versions)))
            /\ aggPc' = "final"
       ELSE /\ aggPc' = "sentinel"
            /\ UNCHANGED <<out, queue>>
    /\ UNCHANGED <<results, should_cancel, todo, outstanding, min_versions,
                   min_keys, rv, result, sent, warnings>>
    /\ UNCHANGED workerVars
    /\ UNCHANGED confVars

SuggestLine(k, v) == "Suggest narrowing: " \o k \o ">=" \o ToString(v)

\* lines 330-335: the lines printed after a successful final test
RECURSIVE Suggestions(_, _, _, _)
Suggestions(vs, mv, keys, i) ==
    IF i > Len(keys) THEN <<>>
    ELSE LET k == keys[i] IN
         (IF vs[k][1] # mv[k] THEN <<SuggestLine(k, mv[k])>> ELSE <<>>)
         \o Suggestions(vs, mv, keys, i + 1)

Report(vs, mv, keys) ==
    IF Suggestions(vs, mv, keys, 1) = <<>> THEN <<"Everything is fine.">>
    ELSE Suggestions(vs, mv, keys, 1)

\* solve: result = results.get(block=True) of line 322, and the report
Final ==
    /\ aggPc = "final"
    /\ results # <<>>
    /\ LET r == Head(results) IN
          /\ results' = Tail(results)
          /\ result' = Some(r)
          /\ IF r.exception # None
             THEN /\ out' = out \o <<FailLine(r), r.output>>
                  /\ rv' = 2
             ELSE /\ out' = out \o <<OkLine(r)>> \o
                            Report(versions, min_versions, min_keys)
                  /\ rv' = rv
    /\ aggPc' = "sentinel"
    /\ UNCHANGED <<queue, should_cancel, todo, outstanding, min_versions,
                   min_keys, sent, warnings>>
    /\ UNCHANGED workerVars
    /\ UNCHANGED confVars

\* solve: for i in range(parallelism): queue.put(None)
PutSentinel ==
    /\ aggPc = "sentinel"
    /\ sent < parallelism
    /\ queue' = Append(queue, None)
    /\ sent' = sent + 1
    /\ aggPc' = IF sent + 1 = parallelism THEN "join" ELSE "sentinel"
    /\ UNCHANGED <<results, should_cancel, todo, outstanding, min_versions,
                   min_keys, rv, result, out, warnings>>
    /\ UNCHANGED workerVars
    /\ UNCHANGED confVars

\* solve: for t in threads: t.join(); return rv
Return ==
    /\ aggPc = "join"
    /\ \A w \in threads : wpc[w] = "exited"
    /\ aggPc' = "done"
    /\ UNCHANGED <<queue, results, should_cancel, todo, outstanding,
                   min_versions, min_keys, rv, result, sent, out, warnings>>
    /\ UNCHANGED workerVars
    /\ UNCHANGED confVars

\* a step of one of the runner threads
WorkerDequeues == \E w \in threads : Dequeue(w)
WorkerChecks == \E w \in threads : CheckCancel(w)
WorkerExecutes == \E w \in threads : Execute(w)

Next ==
    \/ StartThreads
    \/ Dispatch
    \/ Consume
    \/ LeaveLoop
    \/ Final
    \/ PutSentinel
    \/ Return
    \/ WorkerDequeues
    \/ WorkerChecks
    \/ WorkerExecutes

Spec == Init /\ [][Next]_vars


\* ================================================================ claims
\* vocabulary
Printed(line) == \E i \in 1..Len(out) : out[i] = line
OkSeen(t) == Printed("OK   " \o t)
FailSeen(t) == \E f \in Failures : Printed("FAIL " \o t \o ": " \o f[1][1])
\* the main thread has taken the result of the plan with this title
ResultSeen(t) == OkSeen(t) \/ FailSeen(t)
\* the worker holds a plan it has dequeued and not yet finished or dropped
Held(w) == wpc[w] \in {"check", "run"}
QueuedAt(i) == queue[i] # None
Executed(t) == t \in DOMAIN ran
Passed(t) == Executed(t) /\ ran[t][1] = None
Failed(t) == Executed(t) /\ ran[t][1] # None
Returned == aggPc = "done"
\* the final (joint) test has been put on the queue
FinalDispatched == Printed("Final test")
\* titles of the plans put on the queue so far
Dispatched ==
    LET ps == Plans(fast, versions) IN
    (IF aggPc = "start" THEN {}
     ELSE {ps[i].title : i \in 1..(Len(ps) - Len(todo))})
    \cup (IF FinalDispatched THEN {"min"} ELSE {})
\* the candidates of a name that get a plan of their own
ProbesOf(k) == {versions[k][i] : i \in 1..(Len(versions[k]) - 1)}
PassingOf(k) == {v \in ProbesOf(k) : Passed(ProbeTitle(k, v))}
Lowest(S) == CHOOSE v \in S : \A u \in S : v <= u
AnySuggestion ==
    \E k \in Names : \E i \in 1..Len(versions[k]) :
        Printed(SuggestLine(k, versions[k][i]))

\* ---------------------------------------------------------------- C1
\* C1 as claimed: whenever a plan other than the max plan is on the plan
\* queue or in the hands of a worker, the main thread has already taken the
\* result of the max plan.
C1_Phase2AfterMaxResult ==
    (\/ \E i \in 1..Len(queue) : QueuedAt(i) /\ queue[i][1].title # "max"
     \/ \E w \in threads : Held(w) /\ item[w][1].title # "max")
    => ResultSeen("max")

\* C1 as amended: the max plan is the first plan put on the queue and the
\* first plan a worker takes; the plans of phase 2 are put right behind it
\* without waiting for its result; only the final joint plan is never put
\* before the result of the max plan has been taken.
C1_MaxPlanGoesFirst ==
    /\ \A i \in 1..Len(queue) :
          (QueuedAt(i) /\ queue[i][1].title # "max") =>
             \/ "max" \in DOMAIN taken
             \/ \E j \in 1..(i - 1) : QueuedAt(j) /\ queue[j][1].title = "max"
    /\ \A t \in DOMAIN taken : t # "max" => "max" \in DOMAIN taken
    /\ FinalDispatched => ResultSeen("max")

\* a worker executes a plan of phase 2 while the result of the max plan has
\* not been taken
C1_Witness ==
    \E w \in threads :
        /\ wpc[w] = "run"
        /\ item[w][1].title # "max"
        /\ ~ResultSeen("max")

\* ---------------------------------------------------------------- C2
\* C2: once the main thread has taken the failure of the max plan, the exit
\* status is 1, the final joint plan is not dispatched, nothing more is
\* printed (no further result is consumed, no suggestion is made).
C2_BaselineFailureStops ==
    FailSeen("max") =>
        /\ rv = 1
        /\ ~FinalDispatched
        /\ \A i \in 1..Len(queue) :
               QueuedAt(i) => queue[i][1] \in
                   {Plans(fast, versions)[j] : j \in 1..Len(Plans(fast, versions))}
        /\ \E f \in Failures : out[Len(out) - 1] = "FAIL max: " \o f[1][1]
        /\ ~AnySuggestion

\* ---------------------------------------------------------------- C3
\* C3: solve always terminates: until it has returned some thread can take
\* a step; when it returns it has put one sentinel per started worker and
\* every worker has left its loop.
C3_SolveTerminates ==
    /\ Returned \/ ENABLED Next
    /\ Returned =>
          /\ sent = Len(wpc)
          /\ Len(wpc) = parallelism
          /\ \A w \in threads : wpc[w] = "exited"

\* ---------------------------------------------------------------- C4
\* C4: while the final joint plan is on the plan queue, every result of the
\* earlier plans has been consumed: nothing is outstanding, no other plan is
\* queued, no worker holds a plan and the result queue is empty.
C4_JointAfterDrain ==
    \A i \in 1..Len(queue) :
        (~fast /\ QueuedAt(i) /\ queue[i][1].title = "min") =>
            /\ outstanding = 0
            /\ results = <<>>
            /\ \A j \in 1..Len(queue) : QueuedAt(j) => j = i
            /\ \A w \in threads : ~Held(w)

\* ---------------------------------------------------------------- C5
\* C5: once the cancellation flag is set no worker starts executing a plan,
\* and when solve returns with the flag set its exit status is 1.
C5_Cancellation ==
    [][ /\ should_cancel =>
              \A w \in threads : wpc'[w] = "run" => wpc[w] = "run"
        /\ (should_cancel' /\ aggPc' = "done") => rv' = 1 ]_vars

\* ---------------------------------------------------------------- C6
\* C6: the exit status is 1 exactly when the max plan or the fast-mode min
\* plan failed, 2 exactly when the max plan passed and the joint plan
\* failed, and 0 otherwise.
C6_ExitStatus ==
    Returned =>
        LET fatalFailed == Failed("max") \/ (fast /\ Failed("min"))
            jointFailed == ~fast /\ Passed("max") /\ Failed("min")
        IN  /\ (rv = 1) <=> fatalFailed
            /\ (rv = 2) <=> jointFailed
            /\ (rv = 0) <=> (~fatalFailed /\ ~jointFailed)

\* ---------------------------------------------------------------- C7
\* C7 as claimed: when solve returns, every plan put on the queue has been
\* taken by exactly one worker and has produced exactly one Result.
C7_ExactlyOneResult ==
    Returned =>
        LET D == Dispatched IN
        \A t \in D :
            /\ t \in DOMAIN taken /\ taken[t] = 1
            /\ t \in DOMAIN ran /\ Len(ran[t]) = 1

\* C7 as amended: a plan is taken by at most one worker and produces at most
\* one Result; when solve returns without the cancellation flag set, every
\* plan put on the queue was taken and produced exactly one Result; with
\* the flag set, each worker drops at most one plan without a Result, and
\* plans may be left on the queue.
C7_AtMostOneResult ==
    LET D == Dispatched IN
    /\ \A t \in DOMAIN taken : taken[t] = 1 /\ t \in D
    /\ \A t \in DOMAIN ran : Len(ran[t]) = 1 /\ t \in DOMAIN taken
    /\ Returned =>
          /\ ~should_cancel => \A t \in D : Executed(t)
          /\ Cardinality(DOMAIN taken \ DOMAIN ran) <= Len(wpc)

\* solve has returned; one plan was dequeued and dropped without a Result,
\* another was never taken
C7_Witness ==
    LET D == Dispatched IN
    /\ Returned
    /\ \E t \in D : t \in DOMAIN taken /\ ~Executed(t)
    /\ \E t \in D : t \notin DOMAIN taken

\* ---------------------------------------------------------------- C8
\* the lowest passing probe of every name that has one
ExpectedMin ==
    [k \in {n \in Names : PassingOf(n) # {}} |-> Lowest(PassingOf(k))]

\* C8: in thorough mode, when the loop over the results has ended without
\* cancellation, min_versions maps every name with a passing probe to the
\* lowest version among its passing probes, and holds no other name,
\* whatever the order in which the results arrived.
C8_ReductionOrderIndependent ==
    (~fast /\ aggPc \notin {"start", "put", "loop"} /\ ~should_cancel)
        => min_versions = ExpectedMin

\* two probes of one name passed and the result of the higher version was
\* taken before the result of the lower one
C8_Witness ==
    /\ ~fast /\ aggPc = "sentinel" /\ ~should_cancel
    /\ \E k \in Names : \E u, v \in PassingOf(k) :
          /\ u < v
          /\ \E i, j \in 1..Len(out) :
                /\ i < j
                /\ out[i] = "OK   " \o ProbeTitle(k, v)
                /\ out[j] = "OK   " \o ProbeTitle(k, u)
          /\ min_versions[k] = u

\* ---------------------------------------------------------------- C9
\* the floor candidate of the name failed its probe and a higher candidate
\* below the maximum passed
FloorFailsHigherPasses(k) ==
    /\ Failed(ProbeTitle(k, versions[k][1]))
    /\ PassingOf(k) # {}

\* C9 as claimed: for such a name (the max plan having passed), when solve
\* returns it returns 0, the final joint plan was run with the lowest
\* passing version of the name, and the suggestion naming that version was
\* printed.
C9_SuggestionAlways ==
    \A k \in Names :
        (~fast /\ Returned /\ Passed("max") /\ FloorFailsHigherPasses(k)) =>
            /\ rv = 0
            /\ result[1].item.title = "min"
            /\ result[1].item.versions[k] = Lowest(PassingOf(k))
            /\ Printed(SuggestLine(k, Lowest(PassingOf(k))))

\* C9 as amended: for such a name, whenever solve returns 0 the final joint
\* plan was run with the lowest passing version of the name and the
\* suggestion naming that version was printed; and whenever solve returns
\* after the max plan passed, the final joint plan was run with that
\* version, and solve returns 0 with the suggestion if the joint plan passed
\* and 2 without it if the joint plan failed.
C9_SuggestionOnSuccess ==
    \A k \in Names :
        (~fast /\ Returned /\ FloorFailsHigherPasses(k)) =>
            LET low == Lowest(PassingOf(k))
                joint == result[1].item
                ran_low == /\ joint.title = "min"
                           /\ joint.fatal
                           /\ joint.versions[k] = low
            IN  /\ rv = 0 =>
                      ran_low /\ Passed("min") /\ Printed(SuggestLine(k, low))
                /\ Passed("max") =>
                      /\ ran_low
                      /\ Passed("min") =>
                             rv = 0 /\ Printed(SuggestLine(k, low))
                      /\ Failed("min") =>
                             rv = 2 /\ ~Printed(SuggestLine(k, low))
                      /\ Executed("min")

\* solve returned 0 for a name whose floor failed and whose next candidate
\* passed
C9_Witness ==
    /\ ~fast /\ Returned /\ rv = 0
    /\ \E k \in Names :
          /\ FloorFailsHigherPasses(k)
          /\ Printed(SuggestLine(k, versions[k][2]))

\* ---------------------------------------------------------------- C10
\* C10: no suggestion is printed for a name whose floor candidate passed its
\* probe; a suggestion for a name is printed only when its recorded minimum
\* differs from the first element of its candidate list, and only after the
\* final joint plan has succeeded.
C10_SuggestionOnlyWhenNeeded ==
    \A k \in Names : \A i \in 1..Len(versions[k]) :
        Printed(SuggestLine(k, versions[k][i])) =>
            /\ ~Passed(ProbeTitle(k, versions[k][1]))
            /\ k \in DOMAIN min_versions
            /\ min_versions[k] = versions[k][i]
            /\ min_versions[k] # versions[k][1]
            /\ Passed("min")

\* ---------------------------------------------------------------- C11
\* the sum over the names of (number of candidates - 1)
RECURSIVE CountBelowMax(_)
CountBelowMax(i) ==
    IF i > Len(NameOrder) THEN 0
    ELSE (Len(versions[NameOrder[i]]) - 1) + CountBelowMax(i + 1)

\* the main thread has made its list of plans and put none of them yet
PlansMade == aggPc = "put" /\ outstanding = 0

\* C11: the intermediate plans that solve gets in thorough mode are as many
\* as the sum over the names of (candidates - 1), exactly one per name and
\* candidate below the name's maximum; each is non-fatal, records that name
\* and version, and assigns every other name its maximum.
C11_IntermediatePlans ==
    (~fast /\ PlansMade) =>
        LET ps == Tail(todo) IN
        /\ Len(ps) = CountBelowMax(1)
        /\ \A i \in 1..Len(ps) :
              /\ ~ps[i].fatal
              /\ ps[i].name # None /\ ps[i].version # None
              /\ ps[i].name[1] \in Names
              /\ ps[i].version[1] \in ProbesOf(ps[i].name[1])
              /\ ps[i].version[1] <
                     versions[ps[i].name[1]][Len(versions[ps[i].name[1]])]
              /\ DOMAIN ps[i].versions = Names
              /\ \A n \in Names :
                    ps[i].versions[n] =
                       IF n = ps[i].name[1] THEN ps[i].version[1]
                       ELSE versions[n][Len(versions[n])]
        /\ \A k \in Names : \A v \in ProbesOf(k) :
              Cardinality({i \in 1..Len(ps) :
                  ps[i].name = Some(k) /\ ps[i].version = Some(v)}) = 1

\* a catalog with two names that have candidates below their maximum, one
\* of them two
C11_Witness ==
    /\ ~fast /\ PlansMade
    /\ Len(Tail(todo)) = 3
    /\ \E i, j \in 1..Len(Tail(todo)) : Tail(todo)[i].name # Tail(todo)[j].name

\* ---------------------------------------------------------------- C12
\* C12: the max plan assigns every name of the catalog the last element of
\* its candidate list, the min plan (fast mode) the first; both are fatal
\* and cover every name.
C12_MaxAndMinPlan ==
    PlansMade =>
        /\ todo[1].title = "max" /\ todo[1].fatal
        /\ DOMAIN todo[1].versions = Names
        /\ \A n \in Names : todo[1].versions[n] = versions[n][Len(versions[n])]
        /\ fast =>
              /\ Len(todo) = 2
              /\ todo[2].title = "min" /\ todo[2].fatal
              /\ DOMAIN todo[2].versions = Names
              /\ \A n \in Names : todo[2].versions[n] = versions[n][1]

\* fast mode, a name with two candidates: the two plans differ
C12_Witness ==
    /\ fast /\ PlansMade
    /\ \E n \in Names : todo[1].versions[n] > todo[2].versions[n]

\* ---------------------------------------------------------------- C13
\* C13: in fast mode, when the max plan has passed and the min plan has
\* failed, solve returns 1 having printed a FAIL line for the min plan, no
\* narrowing suggestion is printed and no final test is run, whichever of
\* the two results the main thread takes first.
C13_FastMinFailure ==
    (fast /\ Returned /\ Passed("max") /\ Failed("min")) =>
        /\ rv = 1
        /\ FailSeen("min")
        /\ ~AnySuggestion
        /\ ~FinalDispatched
        /\ ~Printed("Everything is fine.")
        /\ Len(ran["min"]) = 1

\* the min plan's failure is taken before the max plan's result, and the
\* max plan has passed all the same
C13_Witness ==
    /\ fast /\ Returned /\ Passed("max") /\ Failed("min")
    /\ ~OkSeen("max")
    /\ \E f \in Failures : out[1] = "FAIL min: " \o f[1][1]

\* ---------------------------------------------------------------- C14
\* a step of the loop that takes the result at the head of the result queue
TakesResult == aggPc = "loop" /\ outstanding' = outstanding - 1
\* the result being taken is the failure of a plan made for one version of
\* a name that has a recorded passing version
FailedProbeOfRecorded(r) ==
    /\ r.exception # None
    /\ r.item.name # None
    /\ r.item.name[1] \in DOMAIN min_versions
WarningLogged == warnings' = Append(warnings, "  Inconsistent result")
WarningIsHarmless ==
    (warnings' # warnings) =>
        /\ should_cancel' = should_cancel
        /\ rv' = rv
        /\ min_versions' = min_versions /\ min_keys' = min_keys

\* C14 as claimed: when the main thread takes the failure of a probe whose
\* version is lower than the version recorded as passing for the same name,
\* the warning is logged; and the warning leaves the cancellation flag, the
\* exit status and the map of minimal versions as they are.
C14_WarningWhenLowerFails ==
    [][TakesResult =>
          LET r == Head(results) IN
          /\ (FailedProbeOfRecorded(r)
                /\ r.item.version[1] < min_versions[r.item.name[1]])
             => WarningLogged
          /\ WarningIsHarmless]_vars

\* C14 amended: the warning is logged exactly when the main thread takes the
\* failure of a probe whose version is higher than the version recorded as
\* passing for the same name at that moment; the warning leaves the
\* cancellation flag, the exit status and the map of minimal versions as
\* they are.
C14_WarningWhenHigherFails ==
    [][/\ TakesResult =>
             LET r == Head(results) IN
             /\ WarningLogged <=>
                   (FailedProbeOfRecorded(r)
                      /\ r.item.version[1] > min_versions[r.item.name[1]])
             /\ WarningIsHarmless
       /\ ~TakesResult => warnings' = warnings]_vars

\* a warning has been logged: a lower version of the name had passed, the
\* higher one failed, and solve went on
C14_Witness ==
    /\ warnings # <<>>
    /\ ~should_cancel /\ rv = 0
    /\ \E k \in DOMAIN min_versions : \E v \in ProbesOf(k) :
          v > min_versions[k] /\ FailSeen(ProbeTitle(k, v))

\* ---------------------------------------------------------------- C15
\* the main thread takes, in the loop or after it, the failure of a plan
\* that is not fatal
TakesProbeFailure ==
    /\ results # <<>> /\ results' = Tail(results)
    /\ Head(results).exception # None
    /\ ~Head(results).item.fatal

\* C15: the step in which the main thread takes the failure of a non-fatal
\* plan leaves the cancellation flag, the exit status and the keys of the
\* map of minimal versions as they are; and solve returns non-zero only
\* when the max plan, the min plan of fast mode or the final plan failed.
C15_ProbeFailureIsHarmless ==
    [][/\ TakesProbeFailure =>
             /\ should_cancel' = should_cancel
             /\ rv' = rv
             /\ DOMAIN min_versions' = DOMAIN min_versions
       /\ (aggPc' = "done" /\ rv' # 0) => (Failed("max") \/ Failed("min"))
      ]_vars

\* ---------------------------------------------------------------- C16
\* the plans that are on the plan queue or held by a worker
PlansInFlight ==
    {queue[i][1] : i \in {j \in 1..Len(queue) : QueuedAt(j)}}
    \cup {item[w][1] : w \in {x \in threads : Held(x)}}

\* C16: the final plan is put on the queue only in thorough mode and only
\* with a non-empty map of minimal versions; it is fatal, covers every name
\* of the catalog, and assigns every name of the map its recorded version
\* and every other name its maximum.
C16_JointPlan ==
    /\ FinalDispatched => (~fast /\ min_versions # <<>>)
    /\ ~fast =>
          \A p \in PlansInFlight :
              p.title = "min" =>
                  /\ FinalDispatched
                  /\ p.fatal
                  /\ p.name = None /\ p.version = None
                  /\ DOMAIN p.versions = Names
                  /\ \A n \in Names :
                        p.versions[n] =
                           IF n \in DOMAIN min_versions THEN min_versions[n]
                           ELSE versions[n][Len(versions[n])]

\* the final plan is on its way with one name taken from the map, below its
\* maximum, and one name left at its maximum
C16_Witness ==
    /\ ~fast
    /\ \E p \in PlansInFlight :
          /\ p.title = "min"
          /\ \E n \in DOMAIN min_versions :
                p.versions[n] < versions[n][Len(versions[n])]
          /\ \E n \in Names \ DOMAIN min_versions :
                Len(versions[n]) > 1

\* ---------------------------------------------------------------- C17
\* C17: across every step of solve an entry of the map of minimal versions
\* stays in the map and its version stays equal or gets lower; and every
\* entry is one of the name's candidates, strictly below the name's maximum.
C17_MapOnlyDecreases ==
    [][/\ \A k \in DOMAIN min_versions :
             /\ k \in DOMAIN min_versions'
             /\ min_versions'[k] <= min_versions[k]
       /\ \A k \in DOMAIN min_versions' :
             /\ k \in Names
             /\ \E i \in 1..(Len(versions[k]) - 1) :
                   min_versions'[k] = versions[k][i]
             /\ min_versions'[k] < versions[k][Len(versions[k])]
      ]_vars

\* an entry has been lowered: the main thread is in the loop, the name's
\* higher candidate passed first and the recorded version is the lower one
C17_Witness ==
    /\ aggPc = "loop"
    /\ \E k \in DOMAIN min_versions : \E v \in ProbesOf(k) :
          /\ min_versions[k] < v
          /\ \E i, j \in 1..Len(out) :
                /\ i < j
                /\ out[i] = "OK   " \o ProbeTitle(k, v)
                /\ out[j] = "OK   " \o ProbeTitle(k, min_versions[k])

\* ---------------------------------------------------------------- C18
\* C18: a worker that has run a plan, failing or not, puts one Result for
\* that plan on the result queue, with the error description when it
\* failed, and is back at queue.get; a worker leaves its loop only when it
\* dequeues a sentinel or when it finds the cancellation flag set after a
\* dequeue.
C18_WorkerSurvivesFailure ==
    [][\A w \in threads :
          /\ (wpc[w] = "run" /\ wpc'[w] # "run") =>
                /\ wpc'[w] = "get"
                /\ Len(results') = Len(results) + 1
                /\ SubSeq(results', 1, Len(results)) = results
                /\ results'[Len(results')].item = item[w][1]
                /\ results'[Len(results')].exception \in
                      {None, Some("Install failed"), Some("Test failed")}
                /\ ran'[item[w][1].title][Len(ran'[item[w][1].title])] =
                      results'[Len(results')].exception
          /\ (wpc[w] # "exited" /\ wpc'[w] = "exited") =>
                \/ wpc[w] = "get" /\ queue # <<>> /\ Head(queue) = None
                \/ wpc[w] = "check" /\ should_cancel
      ]_vars

\* the only worker has run a plan that failed and holds the next plan
C18_Witness ==
    /\ parallelism = 1
    /\ 1 \in threads
    /\ Held(1)
    /\ \E t \in DOMAIN ran : Failed(t) /\ t # item[1][1].title
    /\ \E i \in 1..Len(results) : results[i].exception # None

\* ---------------------------------------------------------------- C19
\* the main thread has taken a result in the final block
FinalResultTaken == FinalDispatched /\ aggPc \in {"sentinel", "join", "done"}

\* C19: the result the main thread takes in the final block is the result
\* of the final plan it has just put on the queue, which a worker has run.
C19_FinalResultIsJoint ==
    FinalResultTaken =>
        /\ result # None
        /\ result[1].item = JointPlan(versions, min_versions)
        /\ Executed("min")
        /\ result[1].exception = ran["min"][1]

\* ---------------------------------------------------------------- C20
\* the plan made for the lowest candidate of a name
FloorProbe(k) == ProbeTitle(k, versions[k][1])

\* C20: when solve returns 0 in thorough mode, every name whose lowest
\* candidate failed its probe has a narrowing suggestion printed; and when
\* 'Everything is fine.' is printed, the lowest candidate of every name with
\* more than one candidate passed its probe.
C20_TightOnlyWhenFloorsPass ==
    (~fast /\ Returned /\ rv = 0) =>
        \A k \in {n \in Names : Len(versions[n]) > 1} :
            /\ Failed(FloorProbe(k)) =>
                  \E i \in 1..Len(versions[k]) :
                      Printed(SuggestLine(k, versions[k][i]))
            /\ (Printed("Everything is fine.") /\ ~AnySuggestion) =>
                  Passed(FloorProbe(k))
====
